---- MODULE Spec2Model ----
(***************************************************************************)
(* Model of the rss-digest pipeline (src/src/digest.py run_digest) and of  *)
(* the relevance ranker it drives (src/src/ranker.py ArticleRanker), with  *)
(* the summarizer (src/src/summarizer.py) and the Discord poster           *)
(* (src/src/discord_poster.py) it calls.                                   *)
(*                                                                         *)
(* Spec is a run of run_digest.  UnitSpec is one direct call of            *)
(* score_article, of summarize or of post_digest: `call` holds the         *)
(* arguments and what the outside world answers, `returned` the result.    *)
(*                                                                         *)
(* Strings are sequences of one-character strings, so that lower(),        *)
(* strip(), substring containment and the regular expression               *)
(* \bKEYWORD\b are computed character by character as Python does.         *)
(* Article dicts live in `heap` (object id -> dict); the lists the         *)
(* pipeline passes around are sequences of object ids, so that the         *)
(* in-place writes of rank_articles and summarize_batch are visible        *)
(* through every list that holds the same dict.                            *)
(***************************************************************************)
EXTENDS Integers, Sequences, FiniteSets, TLC

VARIABLES pc, ranker, config, dry_run, heap, articles, candidates,
          summarized, ranked, posted, exit_code, api_attempts, stdout,
          call, returned

vars == <<pc, ranker, config, dry_run, heap, articles, candidates,
          summarized, ranked, posted, exit_code, api_attempts, stdout,
          call, returned>>

(***************************************************************************)
(* Bounds of the model.                                                    *)
(***************************************************************************)
\* largest number of entries the feeds deliver in one run
MaxArticles == 3
\* largest number of entries the second feed delivers in one run
MaxSecond == 1

(***************************************************************************)
(* Characters and strings.                                                 *)
(***************************************************************************)
LowerLetters == {"a","b","c","d","e","f","g","h","i","j","k","l","m","n","o",
                 "p","q","r","s","t","u","v","w","x","y","z"}

UpperToLower == ("A" :> "a") @@ ("B" :> "b") @@ ("C" :> "c") @@ ("D" :> "d") @@
                ("E" :> "e") @@ ("F" :> "f") @@ ("G" :> "g") @@ ("H" :> "h") @@
                ("I" :> "i") @@ ("J" :> "j") @@ ("K" :> "k") @@ ("L" :> "l") @@
                ("M" :> "m") @@ ("N" :> "n") @@ ("O" :> "o") @@ ("P" :> "p") @@
                ("Q" :> "q") @@ ("R" :> "r") @@ ("S" :> "s") @@ ("T" :> "t") @@
                ("U" :> "u") @@ ("V" :> "v") @@ ("W" :> "w") @@ ("X" :> "x") @@
                ("Y" :> "y") @@ ("Z" :> "z")

Digits == {"0","1","2","3","4","5","6","7","8","9"}

UpperLetters == DOMAIN UpperToLower

\* the characters the regular expression class \w matches
WordChars == LowerLetters \cup UpperLetters \cup Digits \cup {"_"}

\* the characters str.strip() removes
Whitespace == {" "}

\* str.lower()
RECURSIVE Lower(_)
Lower(s) ==
    IF s = <<>> THEN <<>>
    ELSE <<IF Head(s) \in UpperLetters THEN UpperToLower[Head(s)] ELSE Head(s)>>
         \o Lower(Tail(s))

\* str.strip()
RECURSIVE Strip(_)
Strip(s) == IF s = <<>> THEN s
            ELSE IF Head(s) \in Whitespace THEN Strip(Tail(s))
            ELSE IF s[Len(s)] \in Whitespace THEN Strip(SubSeq(s, 1, Len(s) - 1))
            ELSE s

\* Python's `sub in text`
Contains(text, sub) ==
    \E n \in 0..(Len(text) - Len(sub)) : \A m \in 1..Len(sub) : text[n + m] = sub[m]

\* the regular expression assertion \b between text[n] and text[n+1]
WordBoundary(text, n) ==
    LET before == n >= 1 /\ text[n] \in WordChars
        after  == n < Len(text) /\ text[n + 1] \in WordChars
    IN  before # after

\* re.search(r'\b' + re.escape(keyword) + r'\b', text)
SearchWord(text, keyword) ==
    \E n \in 0..(Len(text) - Len(keyword)) :
        /\ \A m \in 1..Len(keyword) : text[n + m] = keyword[m]
        /\ WordBoundary(text, n)
        /\ WordBoundary(text, n + Len(keyword))

\* ' '.join(parts)
RECURSIVE JoinSpace(_)
JoinSpace(parts) == IF Len(parts) = 0 THEN <<>>
                    ELSE IF Len(parts) = 1 THEN parts[1]
                    ELSE parts[1] \o <<" ">> \o JoinSpace(Tail(parts))

\* dict.get(key, default)
Get(d, key, default) == IF key \in DOMAIN d THEN d[key] ELSE default

(***************************************************************************)
(* ArticleRanker (src/src/ranker.py).                                      *)
(***************************************************************************)
\* self.weights
WeightHigh == 10
WeightMedium == 5
WeightLow == 2
\* a cap of 1000 instead of 100
MaxScore_Thousand == 10 * 100
\* self.max_score
MaxScore == 100
\* the score a protected article is raised to
ProtectedFloor == 100

Max(a, b) == IF a >= b THEN a ELSE b
Min(a, b) == IF a <= b THEN a ELSE b

\* ArticleRanker._normalize_keywords: the set of kw.lower().strip()
_normalize_keywords(keywords) ==
    {Strip(Lower(keywords[n])) : n \in 1..Len(keywords)}

\* ArticleRanker.__init__
ArticleRanker(high_priority, medium_priority, low_priority, exclusions) ==
    [high_priority   |-> _normalize_keywords(high_priority),
     medium_priority |-> _normalize_keywords(medium_priority),
     low_priority    |-> _normalize_keywords(low_priority),
     exclusions      |-> _normalize_keywords(exclusions)]

\* create_ranker_from_config: the four lists of the interests section
create_ranker_from_config(interests) ==
    ArticleRanker(interests.high_priority, interests.medium_priority,
                  interests.low_priority, interests.exclusions)

\* a text surface that is the ai_summary alone once there is one
_get_searchable_text_AiOnly(article) ==
    IF "ai_summary" \in DOMAIN article
    THEN Lower(article["ai_summary"])
    ELSE Lower(JoinSpace(<<Get(article, "title", <<>>),
                           Get(article, "summary", <<>>),
                           Get(article, "ai_summary", <<>>),
                           Get(article, "source", <<>>)>>))

\* a text surface that is empty for an article without a title
_get_searchable_text_TitleRequired(article) ==
    IF "title" \in DOMAIN article
    THEN Lower(JoinSpace(<<Get(article, "title", <<>>),
                           Get(article, "summary", <<>>),
                           Get(article, "ai_summary", <<>>),
                           Get(article, "source", <<>>)>>))
    ELSE <<>>

\* ArticleRanker._get_searchable_text
_get_searchable_text(article) ==
    Lower(JoinSpace(<<Get(article, "title", <<>>),
                      Get(article, "summary", <<>>),
                      Get(article, "ai_summary", <<>>),
                      Get(article, "source", <<>>)>>))

\* an exclusion check that needs a whole-word match
_check_exclusions_WholeWord(self, text) ==
    \E exclusion \in self.exclusions : SearchWord(text, exclusion)

\* ArticleRanker._check_exclusions
_check_exclusions(self, text) ==
    \E exclusion \in self.exclusions : Contains(text, exclusion)

\* one iteration of the loop of _count_keyword_matches
KeywordMatches(text, keyword) ==
    IF \E n \in 1..Len(keyword) : keyword[n] = " "
    THEN Contains(text, keyword)
    ELSE SearchWord(text, keyword)

\* the keyword matches the text at offset n: as a substring when it holds a
\* space, between two word boundaries when it does not
MatchesAt(text, keyword, n) ==
    /\ \A m \in 1..Len(keyword) : text[n + m] = keyword[m]
    /\ (\E m \in 1..Len(keyword) : keyword[m] = " ")
       \/ (WordBoundary(text, n) /\ WordBoundary(text, n + Len(keyword)))

\* the number of places of the text where the keyword matches
Occurrences(text, keyword) ==
    Cardinality({n \in 0..(Len(text) - Len(keyword)) : MatchesAt(text, keyword, n)})

RECURSIVE SumOccurrences(_, _)
SumOccurrences(text, keywords) ==
    IF keywords = {} THEN 0
    ELSE LET keyword == CHOOSE k \in keywords : TRUE
         IN  Occurrences(text, keyword) + SumOccurrences(text, keywords \ {keyword})

\* a count of one match per occurrence instead of one per keyword
_count_keyword_matches_PerOccurrence(text, keywords) == SumOccurrences(text, keywords)

\* ArticleRanker._count_keyword_matches
_count_keyword_matches(text, keywords) ==
    Cardinality({keyword \in keywords : KeywordMatches(text, keyword)})

\* raw_score with the weights of the high and the medium tier exchanged
RawScore_SwappedWeights(self, text) ==
    _count_keyword_matches(text, self.high_priority) * WeightMedium
    + _count_keyword_matches(text, self.medium_priority) * WeightHigh
    + _count_keyword_matches(text, self.low_priority) * WeightLow

\* raw_score of score_article
RawScore(self, text) ==
    _count_keyword_matches(text, self.high_priority) * WeightHigh
    + _count_keyword_matches(text, self.medium_priority) * WeightMedium
    + _count_keyword_matches(text, self.low_priority) * WeightLow

\* score_article on the text surface: 0 when excluded, else the capped raw score
ScoreText(self, text) ==
    IF _check_exclusions(self, text) THEN 0
    ELSE Min(RawScore(self, text), MaxScore)

\* score_article without the exclusion check
score_article_NoExclusion(self, article) ==
    Min(RawScore(self, _get_searchable_text(article)), MaxScore)

\* ArticleRanker.score_article
score_article(self, article) == ScoreText(self, _get_searchable_text(article))

\* a sort that leaves the list as it is
SortDescending_NoSort(list, key) == list

\* a descending sort that puts an element before the elements equal to it
RECURSIVE SortDescending_Unstable(_, _)
SortDescending_Unstable(list, key) ==
    IF list = <<>> THEN <<>>
    ELSE LET n      == Len(list)
             sorted == SortDescending_Unstable(SubSeq(list, 1, n - 1), key)
             x      == list[n]
             before == Cardinality({m \in 1..Len(sorted) : key[sorted[m]] > key[x]})
         IN  SubSeq(sorted, 1, before) \o <<x>> \o SubSeq(sorted, before + 1, Len(sorted))

\* list.sort(key=..., reverse=True): stable, descending by key
RECURSIVE SortDescending(_, _)
SortDescending(list, key) ==
    IF list = <<>> THEN <<>>
    ELSE LET n      == Len(list)
             sorted == SortDescending(SubSeq(list, 1, n - 1), key)
             x      == list[n]
             before == Cardinality({m \in 1..Len(sorted) : key[sorted[m]] >= key[x]})
         IN  SubSeq(sorted, 1, before) \o <<x>> \o SubSeq(sorted, before + 1, Len(sorted))

\* the pre-rank bonus decaying one position too early
PreRankBonus_OffByOne(pre_rank, prerank_bonus_max) ==
    IF pre_rank # 0 /\ prerank_bonus_max > 0
    THEN Max(0, prerank_bonus_max - pre_rank)
    ELSE 0

\* the pre-rank bonus of rank_articles; pre_rank 0 stands for an absent
\* (None) pre_rank_position, which is falsy like 0
PreRankBonus(pre_rank, prerank_bonus_max) ==
    IF pre_rank # 0 /\ prerank_bonus_max > 0
    THEN Max(0, prerank_bonus_max - pre_rank + 1)
    ELSE 0

\* protection of every article that has a pre_rank_position
IsProtected_AnyPosition(pre_rank, protected_count) == pre_rank # 0

\* is_protected of rank_articles
IsProtected(pre_rank, protected_count) ==
    pre_rank # 0 /\ pre_rank <= protected_count

\* the score rank_articles stores in relevance_score
FinalScore(score, pre_rank, protected_count, prerank_bonus_max) ==
    IF IsProtected(pre_rank, protected_count)
    THEN Max(score + PreRankBonus(pre_rank, prerank_bonus_max), ProtectedFloor)
    ELSE score + PreRankBonus(pre_rank, prerank_bonus_max)

\* a slice that is one element too long
TakeTop_OneMore(all_scored, top_n) ==
    SubSeq(all_scored, 1, Min(top_n + 1, Len(all_scored)))

\* all_scored[:top_n]
TakeTop(all_scored, top_n) == SubSeq(all_scored, 1, Min(top_n, Len(all_scored)))

\* protected_articles + scored_articles
Combine(protected_articles, scored_articles) == protected_articles \o scored_articles

\* the branches of one iteration of the loop of rank_articles: where the
\* article goes ("excluded", "protected", "scored" or "low") and its score
Place(score, pre_rank, min_score, protected_count, prerank_bonus_max) ==
    IF score = 0 THEN [kind |-> "excluded", score |-> 0]
    ELSE IF IsProtected(pre_rank, protected_count)
    THEN [kind  |-> "protected",
          score |-> FinalScore(score, pre_rank, protected_count, prerank_bonus_max)]
    ELSE IF FinalScore(score, pre_rank, protected_count, prerank_bonus_max) >= min_score
    THEN [kind  |-> "scored",
          score |-> FinalScore(score, pre_rank, protected_count, prerank_bonus_max)]
    ELSE [kind  |-> "low",
          score |-> FinalScore(score, pre_rank, protected_count, prerank_bonus_max)]

\* one iteration of the loop of rank_articles
LoopBody(self, article, min_score, protected_count, prerank_bonus_max) ==
    Place(score_article(self, article), Get(article, "pre_rank_position", 0),
          min_score, protected_count, prerank_bonus_max)

\* the results of the loop of rank_articles, one per article of the list
RECURSIVE Loop(_, _, _, _, _, _)
Loop(self, h, list, min_score, protected_count, prerank_bonus_max) ==
    IF list = <<>> THEN <<>>
    ELSE Append(Loop(self, h, SubSeq(list, 1, Len(list) - 1), min_score,
                     protected_count, prerank_bonus_max),
                [id |-> list[Len(list)]]
                @@ LoopBody(self, h[list[Len(list)]], min_score, protected_count,
                            prerank_bonus_max))

IsProtectedResult(r) == r.kind = "protected"
IsScoredResult(r) == r.kind = "scored"

\* the articles of a list of loop results
Ids(results) == [n \in 1..Len(results) |-> results[n].id]

\* the sort key: the relevance_score stored on each article
Keys(results) ==
    [id \in {results[n].id : n \in 1..Len(results)} |->
        (CHOOSE r \in {results[n] : n \in 1..Len(results)} : r.id = id).score]

\* a write that also clears the link of the articles it keeps
Write_ClearsLink(h, prot, scored) ==
    [id \in DOMAIN h |->
        IF \E n \in 1..Len(prot \o scored) : (prot \o scored)[n].id = id
        THEN [k \in DOMAIN h[id] \cup {"relevance_score"} |->
                IF k = "relevance_score" THEN Keys(prot \o scored)[id]
                ELSE IF k = "link" THEN 0
                ELSE h[id][k]]
        ELSE h[id]]

\* article['relevance_score'] = score, and article['protected'] = True on the
\* protected ones
Write(h, prot, scored) ==
    [id \in DOMAIN h |->
        IF \E n \in 1..Len(prot) : prot[n].id = id
        THEN [k \in DOMAIN h[id] \cup {"relevance_score", "protected"} |->
                IF k = "relevance_score" THEN Keys(prot)[id]
                ELSE IF k = "protected" THEN TRUE
                ELSE h[id][k]]
        ELSE IF \E n \in 1..Len(scored) : scored[n].id = id
        THEN [k \in DOMAIN h[id] \cup {"relevance_score"} |->
                IF k = "relevance_score" THEN Keys(scored)[id] ELSE h[id][k]]
        ELSE h[id]]

\* the end of rank_articles: combine, sort, take the top
Return(h, prot, scored, top_n) ==
    [result |-> TakeTop(SortDescending(Combine(Ids(prot), Ids(scored)),
                                       Keys(prot \o scored)), top_n),
     heap   |-> Write(h, prot, scored)]

\* protected_articles and scored_articles of the loop results
Partition(h, done, top_n) ==
    Return(h, SelectSeq(done, IsProtectedResult), SelectSeq(done, IsScoredResult), top_n)

\* ArticleRanker.rank_articles on the dicts h[id], id in list; gives the
\* returned list and the dicts after the in-place writes
rank_articles(self, h, list, top_n, min_score, protected_count, prerank_bonus_max) ==
    Partition(h, Loop(self, h, list, min_score, protected_count, prerank_bonus_max),
              top_n)

(***************************************************************************)
(* Inputs of a run: the configuration, the feed entries and the texts the  *)
(* AI provider may answer with.                                            *)
(***************************************************************************)
\* the interests section of config.yml (keywords as the user wrote them)
Interests ==
    {[high_priority   |-> << <<"a">>, <<"b">>, <<"c">>, <<"d">>,
                            <<"a", " ", "b">>, <<"b", " ", "c">>, <<"c", " ", "d">>,
                            <<"a", " ", "b", " ", "c">>, <<"b", " ", "c", " ", "d">>,
                            <<"a", " ", "b", " ", "c", " ", "d">>,
                            <<" ", "K">> >>,
      medium_priority |-> << <<"m">>, <<"m", " ", "m">> >>,
      low_priority    |-> << <<"l">> >>,
      exclusions      |-> << <<"X", " ">> >>],
     \* a high-priority keyword that is empty after trimming, a phrase with
     \* two spaces, and a keyword that ends with a punctuation character
     [high_priority   |-> << <<" ", " ">>, <<"K">> >>,
      medium_priority |-> << <<"m">>, <<"m", " ", " ", "l">> >>,
      low_priority    |-> << <<"l">>, <<"z", "+">> >>,
      exclusions      |-> << <<"x">> >>],
     \* an empty exclusion keyword
     [high_priority   |-> << <<"K">> >>,
      medium_priority |-> << <<"m">> >>,
      low_priority    |-> << <<"l">> >>,
      exclusions      |-> << <<"x">>, <<>> >>],
     \* no tier keyword at all
     [high_priority   |-> <<>>,
      medium_priority |-> <<>>,
      low_priority    |-> <<>>,
      exclusions      |-> << <<"x">> >>]}

\* the digest and ranking sections of config.yml
DigestConfigs ==
    {[top_articles |-> 2, min_score |-> 12, candidate_buffer |-> 2,
      protected_count |-> 1, prerank_bonus_max |-> 5],
     [top_articles |-> 1, min_score |-> 1, candidate_buffer |-> 2,
      protected_count |-> 1, prerank_bonus_max |-> 5],
     [top_articles |-> 1, min_score |-> 1, candidate_buffer |-> 2,
      protected_count |-> 2, prerank_bonus_max |-> 0],
     [top_articles |-> 2, min_score |-> 1, candidate_buffer |-> 3,
      protected_count |-> 0, prerank_bonus_max |-> 1]}

\* the arguments of run_digest: a configuration and the --dry-run flag
RunInputs ==
    {[config |-> c, dry_run |-> FALSE] : c \in DigestConfigs}
    \cup {[config |-> c, dry_run |-> TRUE] :
              c \in {d \in DigestConfigs : d.min_score = 12}}

\* the feeds section of config.yml: the feed names
Feeds == << <<"l">>, <<"m", "s">> >>

\* entries a feed may deliver (title, link, summary)
Entries ==
    {[title |-> <<"K">>, link |-> 1, summary |-> <<"m">>],
     [title |-> <<"z", "+", "z">>, link |-> 2, summary |-> <<>>],
     [title |-> <<"a">>, link |-> 3, summary |-> <<"a", "x">>]}

\* texts the AI provider may return for an article
AiSummaries ==
    {<<"a", " ", "b", " ", "c", " ", "d", " ", "m">>,
     <<"x">>}

\* the --limit argument (0: not given)
Limits == {0, 1}

SeqsUpTo(S, n) == UNION {[1..m -> S] : m \in 0..n}

(***************************************************************************)
(* BaseSummarizer.summarize (src/src/summarizer.py).                       *)
(***************************************************************************)
\* BaseSummarizer.retry_max
RetryMax == 3

\* messages of the errors _call_api may raise
RateLimitMessages == {<<"4", "2", "9">>, <<"Q", "u", "o", "t", "a">>}
OtherMessages == {<<"5", "0", "0">>}

\* what the provider may do on one attempt: answer with a text or raise
ApiResponses ==
    {[kind |-> "text", text |-> t, message |-> <<>>] : t \in AiSummaries}
    \cup {[kind |-> "error", text |-> <<>>, message |-> m] :
              m \in RateLimitMessages \cup OtherMessages}

\* "429" in error_str or "quota" in error_str.lower()
IsRateLimitError(error_str) ==
    \/ Contains(error_str, <<"4", "2", "9">>)
    \/ Contains(Lower(error_str), <<"q", "u", "o", "t", "a">>)

\* the message of the exception after the for loop of summarize
MaxRetriesExceeded ==
    <<"M", "a", "x", " ", "r", "e", "t", "r", "i", "e", "s", " ",
      "e", "x", "c", "e", "e", "d", "e", "d">>

\* the for loop of summarize from iteration `attempt` on; responses[n] is what
\* the provider does on the n-th call; trace lists the calls of _rate_limit,
\* _call_api and time.sleep made so far
RECURSIVE Attempt(_, _, _)
Attempt(responses, attempt, trace) ==
    IF attempt >= RetryMax
    THEN [ok |-> FALSE, text |-> <<>>, error |-> MaxRetriesExceeded, trace |-> trace]
    ELSE IF responses[attempt + 1].kind = "text"
    THEN [ok |-> TRUE, text |-> responses[attempt + 1].text, error |-> <<>>,
          trace |-> trace \o <<"_rate_limit", "_call_api">>]
    ELSE IF IsRateLimitError(responses[attempt + 1].message) /\ attempt < RetryMax - 1
    THEN Attempt(responses, attempt + 1,
                 trace \o <<"_rate_limit", "_call_api", "sleep">>)
    ELSE [ok |-> FALSE, text |-> <<>>, error |-> responses[attempt + 1].message,
          trace |-> trace \o <<"_rate_limit", "_call_api">>]

\* a summarize that retries after every error
summarize_RetryEveryError(responses) ==
    LET failed == {n \in 1..RetryMax : responses[n].kind = "error"}
        calls  == IF failed = 1..RetryMax THEN RetryMax
                  ELSE CHOOSE n \in 1..RetryMax :
                          responses[n].kind = "text" /\ 1..(n - 1) \subseteq failed
    IN  [ok    |-> responses[calls].kind = "text",
         text  |-> responses[calls].text,
         error |-> responses[calls].message,
         trace |-> [n \in 1..(3 * calls - 1) |->
                      IF n % 3 = 1 THEN "_rate_limit"
                      ELSE IF n % 3 = 2 THEN "_call_api" ELSE "sleep"]]

\* BaseSummarizer.summarize
summarize(responses) == Attempt(responses, 0, <<>>)

\* the number of API attempts of a call of summarize
Attempts(result) ==
    Cardinality({n \in 1..Len(result.trace) : result.trace[n] = "_call_api"})

\* the providers of a run: what each does on the calls for one article
ApiBehaviours ==
    LET text(t)  == [kind |-> "text", text |-> t, message |-> <<>>]
        error(m) == [kind |-> "error", text |-> <<>>, message |-> m]
        first    == <<"a", " ", "b", " ", "c", " ", "d", " ", "m">>
    IN  {<<text(first), text(first), text(first)>>,
         <<error(<<"4", "2", "9">>), text(<<"x">>), text(<<"x">>)>>,
         <<error(<<"5", "0", "0">>), text(first), text(first)>>,
         <<error(<<"Q", "u", "o", "t", "a">>), error(<<"4", "2", "9">>),
           error(<<"Q", "u", "o", "t", "a">>)>>}

RECURSIVE SumAttempts(_)
SumAttempts(outcome) ==
    IF outcome = <<>> THEN 0
    ELSE Attempts(outcome[Len(outcome)])
         + SumAttempts(SubSeq(outcome, 1, Len(outcome) - 1))

(***************************************************************************)
(* The pipeline (src/src/digest.py run_digest).                            *)
(***************************************************************************)
\* FeedFetcher.fetch_feed: one article dict per entry the feed delivers
fetch_feed(entries, feed_name) ==
    [n \in 1..Len(entries) |->
        [title   |-> entries[n].title,
         link    |-> entries[n].link,
         summary |-> entries[n].summary,
         source  |-> feed_name]]

\* FeedFetcher.fetch_all_feeds: the feeds' articles, concatenated
fetch_all_feeds(delivered) ==
    fetch_feed(delivered[1], Feeds[1]) \o fetch_feed(delivered[2], Feeds[2])

Init ==
    /\ pc = "fetch"
    /\ ranker \in {create_ranker_from_config(interests) : interests \in Interests}
    /\ \E input \in RunInputs : config = input.config /\ dry_run = input.dry_run
    /\ heap = <<>>
    /\ articles = <<>>
    /\ candidates = <<>>
    /\ summarized = <<>>
    /\ ranked = <<>>
    /\ posted = <<>>
    /\ exit_code = -1
    /\ api_attempts = 0
    /\ stdout = <<>>
    /\ call = [fn |-> "run_digest"]
    /\ returned = <<>>

\* STEP 1 of run_digest: fetch, return 0 when nothing was found, apply --limit
Fetch ==
    /\ pc = "fetch"
    /\ \E second \in SeqsUpTo(Entries, Min(MaxSecond, MaxArticles)), limit \in Limits :
         \E first \in SeqsUpTo(Entries, MaxArticles - Len(second)) :
            LET all_articles == fetch_all_feeds(<<first, second>>)
                n == Len(all_articles)
                kept == IF limit # 0 /\ limit < n THEN limit ELSE n
            IN  /\ heap' = all_articles
                /\ articles' = [m \in 1..kept |-> m]
                /\ IF n = 0
                   THEN pc' = "done" /\ exit_code' = 0
                   ELSE pc' = "prerank" /\ UNCHANGED exit_code
    /\ UNCHANGED <<ranker, config, dry_run, candidates, summarized, ranked, posted,
                   api_attempts, stdout,
          call, returned>>

\* positions counted from 0 instead of 1
RecordPreRank_ZeroBased(h, list) ==
    [id \in DOMAIN h |->
        IF \E n \in 1..Len(list) : list[n] = id
        THEN [k \in DOMAIN h[id] \cup {"pre_rank_position", "pre_rank_score"} |->
                IF k = "pre_rank_position"
                THEN (CHOOSE n \in 1..Len(list) : list[n] = id) - 1
                ELSE IF k = "pre_rank_score" THEN Get(h[id], "relevance_score", 0)
                ELSE h[id][k]]
        ELSE h[id]]

\* article['pre_rank_position'] = i; article['pre_rank_score'] = relevance_score
RecordPreRank(h, list) ==
    [id \in DOMAIN h |->
        IF \E n \in 1..Len(list) : list[n] = id
        THEN [k \in DOMAIN h[id] \cup {"pre_rank_position", "pre_rank_score"} |->
                IF k = "pre_rank_position"
                THEN CHOOSE n \in 1..Len(list) : list[n] = id
                ELSE IF k = "pre_rank_score" THEN Get(h[id], "relevance_score", 0)
                ELSE h[id][k]]
        ELSE h[id]]

\* a pre-rank that does not cut its output to candidate_buffer
PreRank_NoBuffer ==
    /\ pc = "prerank"
    /\ \E r \in {rank_articles(ranker, heap, articles, Len(articles), 0, 0, 0)} :
          /\ candidates' = r.result
          /\ heap' = RecordPreRank(r.heap, r.result)
          /\ IF r.result = <<>>
             THEN pc' = "done" /\ exit_code' = 0
             ELSE pc' = "summarize" /\ UNCHANGED exit_code
    /\ UNCHANGED <<ranker, config, dry_run, articles, summarized, ranked, posted,
                   api_attempts, stdout, call, returned>>

\* STEP 2 of run_digest: pre-rank, return 0 when no candidate is left, record
\* pre_rank_position and pre_rank_score on the candidates
PreRank ==
    /\ pc = "prerank"
    /\ \E r \in {rank_articles(ranker, heap, articles, config.candidate_buffer, 0, 0, 0)} :
          /\ candidates' = r.result
          /\ heap' = RecordPreRank(r.heap, r.result)
          /\ IF r.result = <<>>
             THEN pc' = "done" /\ exit_code' = 0
             ELSE pc' = "summarize" /\ UNCHANGED exit_code
    /\ UNCHANGED <<ranker, config, dry_run, articles, summarized, ranked, posted,
                   api_attempts, stdout,
          call, returned>>

\* the default of article.get('summary', ...) in the fallback of summarize_batch
NoSummaryAvailable ==
    <<"N", "o", " ", "s", "u", "m", "m", "a", "r", "y", " ",
      "a", "v", "a", "i", "l", "a", "b", "l", "e", ".">>

\* summarize_batch without the fallback: no ai_summary when summarize raised
summarize_batch_NoFallback(h, list, outcome) ==
    [id \in DOMAIN h |->
        IF \E n \in 1..Len(list) : list[n] = id /\ outcome[n].ok
        THEN [k \in DOMAIN h[id] \cup {"ai_summary"} |->
                IF k = "ai_summary"
                THEN outcome[CHOOSE m \in 1..Len(list) : list[m] = id].text
                ELSE h[id][k]]
        ELSE h[id]]

\* BaseSummarizer.summarize_batch: ai_summary is the provider's text, or the
\* article's own summary when summarize raised
summarize_batch(h, list, outcome) ==
    [id \in DOMAIN h |->
        IF \E n \in 1..Len(list) : list[n] = id
        THEN LET n == CHOOSE m \in 1..Len(list) : list[m] = id
             IN  [k \in DOMAIN h[id] \cup {"ai_summary"} |->
                    IF k = "ai_summary"
                    THEN IF outcome[n].ok
                         THEN outcome[n].text
                         ELSE Get(h[id], "summary", NoSummaryAvailable)
                    ELSE h[id][k]]
        ELSE h[id]]

\* STEP 3 of run_digest
Summarize ==
    /\ pc = "summarize"
    /\ \E behaviour \in [1..Len(candidates) -> ApiBehaviours] :
         \E outcome \in {[n \in 1..Len(candidates) |-> summarize(behaviour[n])]} :
            /\ heap' = summarize_batch(heap, candidates, outcome)
            /\ api_attempts' = SumAttempts(outcome)
    /\ summarized' = candidates
    /\ pc' = "finalrank"
    /\ UNCHANGED <<ranker, config, dry_run, articles, candidates, ranked, posted,
                   exit_code, stdout, call, returned>>

\* a final rank that returns 1 when nothing is left
FinalRank_EmptyIsError ==
    /\ pc = "finalrank"
    /\ \E r \in {rank_articles(ranker, heap, summarized, config.top_articles,
                               config.min_score, config.protected_count,
                               config.prerank_bonus_max)} :
          /\ ranked' = r.result
          /\ heap' = r.heap
          /\ IF r.result = <<>>
             THEN pc' = "done" /\ exit_code' = 1
             ELSE pc' = "post" /\ UNCHANGED exit_code
    /\ UNCHANGED <<ranker, config, dry_run, articles, candidates, summarized, posted,
                   api_attempts, stdout,
          call, returned>>

\* STEP 4 of run_digest: final rank, return 0 when nothing is left
FinalRank ==
    /\ pc = "finalrank"
    /\ \E r \in {rank_articles(ranker, heap, summarized, config.top_articles,
                               config.min_score, config.protected_count,
                               config.prerank_bonus_max)} :
          /\ ranked' = r.result
          /\ heap' = r.heap
          /\ IF r.result = <<>>
             THEN pc' = "done" /\ exit_code' = 0
             ELSE pc' = "post" /\ UNCHANGED exit_code
    /\ UNCHANGED <<ranker, config, dry_run, articles, candidates, summarized, posted,
                   api_attempts, stdout,
          call, returned>>

\* a dry run that posts the ranked articles
DryRun_Posts ==
    /\ pc = "post"
    /\ dry_run
    /\ stdout' = [n \in 1..Len(ranked) |->
                    [position |-> n,
                     relevance_score |-> Get(heap[ranked[n]], "relevance_score", 0),
                     title |-> heap[ranked[n]]["title"]]]
    /\ posted' = ranked
    /\ pc' = "done"
    /\ exit_code' = 0
    /\ UNCHANGED <<ranker, config, heap, dry_run, articles, candidates, summarized,
                   ranked, api_attempts, call, returned>>

\* STEP 5 of run_digest with --dry-run: print the ranked articles, return 0
DryRun ==
    /\ pc = "post"
    /\ dry_run
    /\ stdout' = [n \in 1..Len(ranked) |->
                    [position |-> n,
                     relevance_score |-> Get(heap[ranked[n]], "relevance_score", 0),
                     title |-> heap[ranked[n]]["title"]]]
    /\ pc' = "done"
    /\ exit_code' = 0
    /\ UNCHANGED <<ranker, config, heap, dry_run, articles, candidates, summarized,
                   ranked, posted, api_attempts, call, returned>>

\* STEP 5 of run_digest without --dry-run: DiscordPoster(webhook_url=...,
\* config=config) raises TypeError, as DiscordPoster.__init__ takes webhook_url
\* only; run_digest neither posts nor returns
Post ==
    /\ pc = "post"
    /\ ~dry_run
    /\ pc' = "raised"
    /\ UNCHANGED <<ranker, config, heap, dry_run, articles, candidates, summarized,
                   ranked, posted, exit_code, api_attempts, stdout,
          call, returned>>

Next == Fetch \/ PreRank \/ Summarize \/ FinalRank \/ DryRun \/ Post

Spec == Init /\ [][Next]_vars

(***************************************************************************)
(* The poster (src/src/discord_poster.py).  A message is held as its kind, *)
(* the articles it lists, the number of the first of them, and its length  *)
(* in characters.                                                          *)
(***************************************************************************)
\* largest number of articles handed to post_digest
MaxPosted == 4
\* length of a long ai_summary
LongSummary == 602

\* the status Discord answers on success
StatusOk == 204
\* the character limit of one Discord message
MessageLimit == 2000
\* batch_size of _post_long_digest
batch_size == 3

\* len(str(n))
Decimal(n) == IF n < 10 THEN 1 ELSE IF n < 100 THEN 2 ELSE 3

\* lengths strftime("%A, %B %d, %Y at %I:%M %p") can have: the shortest
\* ("Friday, May 01, 2026 at 09:05 AM") and the longest
TimestampLengths == {32, 41}

\* what requests.post may do: answer with a status code or raise
HttpAnswers ==
    {[raises |-> FALSE, status_code |-> StatusOk],
     [raises |-> FALSE, status_code |-> 400],
     [raises |-> TRUE, status_code |-> 0]}

\* the keys the f-strings of the poster subscript
PosterKeys == {"title", "source", "ai_summary", "link"}

\* article['...'] raises KeyError for some article of the list
RaisesKeyError(h, list) ==
    \E n \in 1..Len(list) : ~(PosterKeys \subseteq DOMAIN h[list[n]])

\* length of "**{j}. {title}**\n*Source: {source}*\n{ai_summary}\n🔗 {link}\n\n"
ArticleLength(article, j) ==
    (7 + Decimal(j) + Len(article["title"])) + (11 + Len(article["source"]))
    + (Len(article["ai_summary"]) + 1) + (4 + Len(article["link"]))

\* length of the article blocks of a list numbered from j on
RECURSIVE ArticlesLength(_, _, _)
ArticlesLength(h, list, j) ==
    IF list = <<>> THEN 0
    ELSE ArticleLength(h[Head(list)], j) + ArticlesLength(h, Tail(list), j + 1)

\* length of "**{title}**\n*{timestamp}*\n*Found {n} articles*\n"
HeaderLength(list, title, timestamp) ==
    (Len(title) + 5) + (timestamp + 3) + (18 + Decimal(Len(list)))

\* DiscordPoster._format_digest: header, blank line, rule of 50 characters,
\* blank line, the article blocks numbered from 1
_format_digest(h, list, title, timestamp) ==
    [kind     |-> "digest",
     articles |-> list,
     first    |-> 1,
     length   |-> HeaderLength(list, title, timestamp) + 1 + 52
                  + ArticlesLength(h, list, 1)]

\* the header message of _post_long_digest
Header(list, title, timestamp) ==
    [kind     |-> "header",
     articles |-> <<>>,
     first    |-> 0,
     length   |-> HeaderLength(list, title, timestamp)]

\* the for loop of _post_long_digest from offset i on; answers[n] is what
\* requests.post does on the n-th request, requests the messages sent so far
RECURSIVE Batches(_, _, _, _, _)
Batches(h, list, answers, i, requests) ==
    IF i >= Len(list) THEN [result |-> TRUE, requests |-> requests]
    ELSE IF answers[Len(requests) + 1].raises
            \/ answers[Len(requests) + 1].status_code # StatusOk
    THEN [result   |-> FALSE,
          requests |-> Append(requests,
              [kind     |-> "batch",
               articles |-> SubSeq(list, i + 1, Min(i + batch_size, Len(list))),
               first    |-> i + 1,
               length   |-> ArticlesLength(h,
                   SubSeq(list, i + 1, Min(i + batch_size, Len(list))), i + 1)])]
    ELSE Batches(h, list, answers, i + batch_size,
                 Append(requests,
              [kind     |-> "batch",
               articles |-> SubSeq(list, i + 1, Min(i + batch_size, Len(list))),
               first    |-> i + 1,
               length   |-> ArticlesLength(h,
                   SubSeq(list, i + 1, Min(i + batch_size, Len(list))), i + 1)]))

\* a _post_long_digest that goes on to the batches whatever the header's answer
_post_long_digest_IgnoresHeader(h, list, title, timestamp, answers) ==
    Batches(h, list, answers, 0, <<Header(list, title, timestamp)>>)

\* DiscordPoster._post_long_digest; an exception of requests.post is caught
\* by post_digest, which then returns False
_post_long_digest(h, list, title, timestamp, answers) ==
    IF answers[1].raises \/ answers[1].status_code # StatusOk
    THEN [result |-> FALSE, requests |-> <<Header(list, title, timestamp)>>]
    ELSE Batches(h, list, answers, 0, <<Header(list, title, timestamp)>>)

\* DiscordPoster.post_digest: the result and the requests sent
post_digest(h, list, title, timestamp, answers) ==
    IF RaisesKeyError(h, list)
    THEN [result |-> FALSE, requests |-> <<>>]
    ELSE IF _format_digest(h, list, title, timestamp).length > MessageLimit
    THEN _post_long_digest(h, list, title, timestamp, answers)
    ELSE [result   |-> ~answers[1].raises /\ answers[1].status_code = StatusOk,
          requests |-> <<_format_digest(h, list, title, timestamp)>>]

(***************************************************************************)
(* Direct calls of score_article, summarize and post_digest.               *)
(***************************************************************************)
\* a sequence of n characters
Filler(n) == [k \in 1..n |-> "y"]

\* article dicts that lack any of title, summary, ai_summary and source
PartialArticles ==
    LET full == [title |-> <<"K">>, summary |-> <<"m">>, ai_summary |-> <<"l">>,
                 source |-> <<"l">>, link |-> 1]
    IN  {[key \in keys \cup {"link"} |-> IF key = "source" THEN source ELSE full[key]] :
            keys \in SUBSET {"title", "summary", "ai_summary", "source"},
            source \in {<<"l">>, <<"x">>}}

\* the articles a digest is made of: one with a short ai_summary, one with a
\* long one, one no summarizer has touched
PostedArticles ==
    {[title |-> <<"T">>, source |-> <<"s">>, link |-> <<"u">>, ai_summary |-> <<"y">>],
     [title |-> <<"T">>, source |-> <<"s">>, link |-> <<"u">>,
      ai_summary |-> Filler(LongSummary)],
     [title |-> <<"T">>, source |-> <<"s">>, link |-> <<"u">>]}

\* the most requests one call of post_digest can send
MaxRequests == 1 + (MaxPosted + batch_size - 1) \div batch_size

ScoreCalls ==
    {[fn |-> "score_article", article |-> article] : article \in PartialArticles}

SummarizeCalls ==
    {[fn |-> "summarize", responses |-> responses] :
        responses \in [1..RetryMax -> ApiResponses]}

PostCalls ==
    {[fn |-> "post_digest", articles |-> posts, title |-> <<"D">>,
      timestamp |-> timestamp, answers |-> answers] :
        posts \in SeqsUpTo(PostedArticles, MaxPosted),
        timestamp \in TimestampLengths,
        answers \in [1..MaxRequests -> HttpAnswers]}

\* the state before a direct call: the arguments of post_digest are on the
\* heap, listed in `ranked` from the last to the first allocated; the article
\* of score_article is the heap's only one
UnitInit ==
    /\ pc = "call"
    /\ call \in ScoreCalls \cup SummarizeCalls \cup PostCalls
    /\ IF call.fn = "score_article"
       THEN ranker \in {create_ranker_from_config(interests) : interests \in Interests}
       ELSE ranker = create_ranker_from_config(
                        CHOOSE interests \in Interests : interests.high_priority = <<>>)
    /\ heap = IF call.fn = "score_article" THEN <<call.article>>
              ELSE IF call.fn = "post_digest" THEN call.articles ELSE <<>>
    /\ ranked = IF call.fn = "post_digest"
                THEN [n \in 1..Len(call.articles) |-> Len(call.articles) + 1 - n]
                ELSE <<>>
    /\ config = CHOOSE c \in DigestConfigs : c.min_score = 12
    /\ dry_run = FALSE
    /\ articles = <<>>
    /\ candidates = <<>>
    /\ summarized = <<>>
    /\ posted = <<>>
    /\ exit_code = -1
    /\ api_attempts = 0
    /\ stdout = <<>>
    /\ returned = <<>>

\* ranker.score_article(article)
CallScoreArticle ==
    /\ pc = "call"
    /\ call.fn = "score_article"
    /\ returned' = [score |-> score_article(ranker, heap[1])]
    /\ pc' = "returned"
    /\ UNCHANGED <<ranker, config, dry_run, heap, articles, candidates, summarized,
                   ranked, posted, exit_code, api_attempts, stdout, call>>

\* summarizer.summarize(title, content)
CallSummarize ==
    /\ pc = "call"
    /\ call.fn = "summarize"
    /\ returned' = summarize(call.responses)
    /\ api_attempts' = Attempts(summarize(call.responses))
    /\ pc' = "returned"
    /\ UNCHANGED <<ranker, config, dry_run, heap, articles, candidates, summarized,
                   ranked, posted, exit_code, stdout, call>>

\* poster.post_digest(articles, title)
CallPostDigest ==
    /\ pc = "call"
    /\ call.fn = "post_digest"
    /\ \E r \in {post_digest(heap, ranked, call.title, call.timestamp, call.answers)} :
          /\ posted' = r.requests
          /\ returned' = [result |-> r.result]
    /\ pc' = "returned"
    /\ UNCHANGED <<ranker, config, dry_run, heap, articles, candidates, summarized,
                   ranked, exit_code, api_attempts, stdout, call>>

UnitNext == CallScoreArticle \/ CallSummarize \/ CallPostDigest

UnitSpec == UnitInit /\ [][UnitNext]_vars

(***************************************************************************)
(* Vocabulary of the properties.                                           *)
(***************************************************************************)
\* the ids of a list
Elems(list) == {list[n] : n \in 1..Len(list)}

\* the index of id in a list that holds it
IndexIn(list, id) == CHOOSE n \in 1..Len(list) : list[n] = id

\* score_article is about to be applied to the articles: pass 1 or pass 2 starts
BeforePass == pc \in {"prerank", "finalrank"}

\* pass 1 has just returned: to the summarizer, or from run_digest with no
\* candidate
AfterPass1 ==
    summarized = <<>> /\ (pc = "summarize" \/ (pc = "done" /\ heap # <<>>))

\* pass 2 has just returned: to the posting step, or from run_digest with no
\* article
AfterPass2 ==
    summarized # <<>> /\ (pc = "post" \/ (pc = "done" /\ ranked = <<>>))

\* the lower-cased text surface of article id: title, summary, ai_summary, source
Surface(id) ==
    Lower(Get(heap[id], "title", <<>>) \o <<" ">> \o Get(heap[id], "summary", <<>>)
          \o <<" ">> \o Get(heap[id], "ai_summary", <<>>)
          \o <<" ">> \o Get(heap[id], "source", <<>>))

\* the text surface of article id contains an exclusion keyword
HasExclusion(id) ==
    LET text == Surface(id)
    IN  \E kw \in ranker.exclusions : Contains(text, kw)

\* number of keywords of a tier present in the text surface of article id
Present(id, keywords) ==
    LET text == Surface(id)
    IN  Cardinality({kw \in keywords : KeywordMatches(text, kw)})

\* sum over the tiers of (keywords present) x (tier weight)
TierSum(id) ==
    10 * Present(id, ranker.high_priority) + 5 * Present(id, ranker.medium_priority)
    + 2 * Present(id, ranker.low_priority)

\* pre_rank_position of article id, 0 when it has none
Position(id) == Get(heap[id], "pre_rank_position", 0)

\* article id is in the protection range of pass 2
InProtectedRange(id) == Position(id) >= 1 /\ Position(id) <= config.protected_count

\* the decaying bonus of the claims for article id
DecayBonus(id) ==
    IF Position(id) = 0 THEN 0
    ELSE IF config.prerank_bonus_max - Position(id) + 1 > 0
         THEN config.prerank_bonus_max - Position(id) + 1
         ELSE 0

(***************************************************************************)
(* C1  Exclusion dominance: an article whose text surface contains an      *)
(* exclusion keyword scores 0 and is in the output of neither pass, also   *)
(* when its pre_rank_position is within protected_count.                   *)
(***************************************************************************)
C1_ExclusionDominance ==
    /\ BeforePass =>
         \A id \in DOMAIN heap :
            HasExclusion(id) => score_article(ranker, heap[id]) = 0
    /\ AfterPass1 => \A id \in Elems(candidates) : ~HasExclusion(id)
    /\ AfterPass2 => \A id \in Elems(ranked) : ~HasExclusion(id)

\* pass 2 dropped an article of the protection range whose enriched text has
\* an exclusion keyword, in a run whose pass 1 dropped an excluded article too
C1_Witness ==
    /\ AfterPass2
    /\ ranked # <<>>
    /\ \E id \in Elems(summarized) :
         InProtectedRange(id) /\ HasExclusion(id) /\ id \notin Elems(ranked)
    /\ \E id \in Elems(articles) : HasExclusion(id) /\ id \notin Elems(candidates)

(***************************************************************************)
(* C2  Protection guarantee: when top_n >= protected_count, pass 2 returns *)
(* every article of the protection range whose text has no exclusion       *)
(* keyword, whatever the scores and min_score.                             *)
(***************************************************************************)
C2_ProtectionGuarantee ==
    (AfterPass2 /\ config.top_articles >= config.protected_count)
    => \A id \in Elems(summarized) :
          (InProtectedRange(id) /\ ~HasExclusion(id)) => id \in Elems(ranked)

(***************************************************************************)
(* C3  When top_n < protected_count, pass 2 still returns every            *)
(* non-excluded article of the protection range.                           *)
(***************************************************************************)
C3_ProtectedSurviveTruncation ==
    (AfterPass2 /\ config.top_articles < config.protected_count)
    => \A id \in Elems(summarized) :
          (InProtectedRange(id) /\ ~HasExclusion(id)) => id \in Elems(ranked)

(***************************************************************************)
(* C4  In the output of pass 2 every protected article precedes every      *)
(* non-protected one, and each of the two groups is in descending order of *)
(* final score.                                                            *)
(***************************************************************************)
C4_ProtectedFirst ==
    AfterPass2 =>
      \A m, n \in 1..Len(ranked) :
         m < n =>
           /\ ~(~InProtectedRange(ranked[m]) /\ InProtectedRange(ranked[n]))
           /\ (InProtectedRange(ranked[m]) = InProtectedRange(ranked[n]))
              => heap[ranked[m]]["relevance_score"] >= heap[ranked[n]]["relevance_score"]

(***************************************************************************)
(* C5  Bonus decay, as claimed: the final score of an article returned by  *)
(* pass 2 is its re-scored value plus max(0, prerank_bonus_max - p + 1).   *)
(***************************************************************************)
C5_BonusAdded ==
    AfterPass2 =>
      \A id \in Elems(ranked) :
         heap[id]["relevance_score"] = score_article(ranker, heap[id]) + DecayBonus(id)

(***************************************************************************)
(* C5 amended: the bonus max(0, prerank_bonus_max - p + 1) is added to the *)
(* re-scored value; the sum is the final score of a non-protected article, *)
(* and the final score of a protected one is the larger of the sum and     *)
(* 100.  An article without pre_rank_position (pass 1) gets no bonus.      *)
(***************************************************************************)
C5_BonusThenFloor ==
    /\ AfterPass2 =>
         \A id \in Elems(ranked) :
            LET sum == score_article(ranker, heap[id]) + DecayBonus(id)
            IN  heap[id]["relevance_score"] =
                  IF InProtectedRange(id) /\ sum < 100 THEN 100 ELSE sum
    /\ AfterPass1 =>
         \A id \in Elems(candidates) :
            heap[id]["relevance_score"] = score_article(ranker, heap[id])

\* pass 2 returned a non-protected article with a positive bonus and a protected
\* one whose sum was raised to 100
C5_Witness ==
    /\ AfterPass2
    /\ \E id \in Elems(ranked) :
         ~InProtectedRange(id) /\ DecayBonus(id) > 0
         /\ heap[id]["relevance_score"] > score_article(ranker, heap[id])
    /\ \E id \in Elems(ranked) :
         InProtectedRange(id) /\ heap[id]["relevance_score"] = 100
         /\ score_article(ranker, heap[id]) + DecayBonus(id) < 100

(***************************************************************************)
(* C6  Monotonic ranking: in the list pass 1 returns, the score of each    *)
(* article is >= the score of the next one.                                *)
(***************************************************************************)
C6_Pass1Descending ==
    AfterPass1 =>
      \A n \in 1..(Len(candidates) - 1) :
         /\ heap[candidates[n]]["relevance_score"]
              >= heap[candidates[n + 1]]["relevance_score"]
         /\ score_article(ranker, heap[candidates[n]])
              >= score_article(ranker, heap[candidates[n + 1]])

\* pass 1 moved a higher-scored article in front of one that preceded it in
\* the input
C6_Witness ==
    /\ AfterPass1
    /\ \E m, n \in 1..Len(candidates) :
         /\ m < n
         /\ IndexIn(articles, candidates[m]) > IndexIn(articles, candidates[n])
         /\ heap[candidates[m]]["relevance_score"] > heap[candidates[n]]["relevance_score"]

(***************************************************************************)
(* C7  Stable tie-break: two returned articles of equal score (in pass 2:  *)
(* of the same group) keep their input order, and when top_n cuts between  *)
(* tied articles the ones earlier in the input are kept.                   *)
(***************************************************************************)
\* article id of the input of pass 2 qualified for the output before top_n
Qualified2(id) ==
    /\ score_article(ranker, heap[id]) # 0
    /\ \/ InProtectedRange(id)
       \/ score_article(ranker, heap[id]) + DecayBonus(id) >= config.min_score

\* the final score pass 2 gives article id
Final2(id) ==
    LET sum == score_article(ranker, heap[id]) + DecayBonus(id)
    IN  IF InProtectedRange(id) /\ sum < 100 THEN 100 ELSE sum

C7_StableTieBreak ==
    /\ AfterPass1 =>
         /\ \A m, n \in 1..Len(candidates) :
              (m < n /\ heap[candidates[m]]["relevance_score"]
                          = heap[candidates[n]]["relevance_score"])
              => IndexIn(articles, candidates[m]) < IndexIn(articles, candidates[n])
         /\ \A kept \in Elems(candidates) :
              \A cut \in Elems(articles) \ Elems(candidates) :
                 (score_article(ranker, heap[cut]) # 0
                  /\ score_article(ranker, heap[cut]) = heap[kept]["relevance_score"])
                 => IndexIn(articles, kept) < IndexIn(articles, cut)
    /\ AfterPass2 =>
         /\ \A m, n \in 1..Len(ranked) :
              (/\ m < n
               /\ heap[ranked[m]]["relevance_score"] = heap[ranked[n]]["relevance_score"]
               /\ InProtectedRange(ranked[m]) = InProtectedRange(ranked[n]))
              => IndexIn(summarized, ranked[m]) < IndexIn(summarized, ranked[n])
         /\ \A kept \in Elems(ranked) :
              \A cut \in Elems(summarized) \ Elems(ranked) :
                 (Qualified2(cut) /\ Final2(cut) = heap[kept]["relevance_score"])
                 => IndexIn(summarized, kept) < IndexIn(summarized, cut)

\* top_n cut between two tied articles in pass 2, after pass 1 had returned
\* two tied articles
C7_Witness ==
    /\ AfterPass2
    /\ \E kept \in Elems(ranked) :
         \E cut \in Elems(summarized) \ Elems(ranked) :
            Qualified2(cut) /\ Final2(cut) = heap[kept]["relevance_score"]
    /\ \E m, n \in 1..Len(candidates) :
         m < n /\ heap[candidates[m]]["pre_rank_score"] = heap[candidates[n]]["pre_rank_score"]

(***************************************************************************)
(* C8  No two articles of the final ranked output share a link.            *)
(***************************************************************************)
C8_NoDuplicateLinks ==
    AfterPass2 =>
      \A m, n \in 1..Len(ranked) :
         m # n => heap[ranked[m]]["link"] # heap[ranked[n]]["link"]

RECURSIVE TierCountsUpTo(_)
TierCountsUpTo(n) ==
    IF n = 0 THEN <<>>
    ELSE Append(TierCountsUpTo(n - 1), <<Present(n, ranker.high_priority),
                                         Present(n, ranker.medium_priority),
                                         Present(n, ranker.low_priority)>>)

TierCounts == TierCountsUpTo(Len(heap))

\* the scores of articles 1..n
RECURSIVE ScoresUpTo(_)
ScoresUpTo(n) ==
    IF n = 0 THEN <<>>
    ELSE Append(ScoresUpTo(n - 1), score_article(ranker, heap[n]))

\* counts c are larger than counts d in one tier and equal in the other two
MatchesMore(c, d) ==
    \/ c[1] > d[1] /\ c[2] = d[2] /\ c[3] = d[3]
    \/ c[1] = d[1] /\ c[2] > d[2] /\ c[3] = d[3]
    \/ c[1] = d[1] /\ c[2] = d[2] /\ c[3] > d[3]

C11_Pass1KeepsZeroScore ==
    AfterPass1 =>
      \A id \in Elems(articles) :
         (/\ ~HasExclusion(id)
          /\ TierSum(id) = 0
          /\ Cardinality({other \in Elems(articles) :
                            score_article(ranker, heap[other]) > 0})
               < config.candidate_buffer)
         => id \in Elems(candidates)

(***************************************************************************)
(* C12  _count_keyword_matches counts a keyword once however often it      *)
(* occurs: the result is the number of keywords of the set that occur in   *)
(* the text at least once, and lies between 0 and the size of the set.     *)
(***************************************************************************)
\* the keyword sets of the tiers
Tiers == {ranker.high_priority, ranker.medium_priority, ranker.low_priority}

C12_CountsKeywordsNotOccurrences ==
    BeforePass =>
      \A id \in DOMAIN heap :
         LET text == Surface(id)
         IN  \A keywords \in Tiers :
                LET count == _count_keyword_matches(text, keywords)
                IN  /\ count = Cardinality({kw \in keywords : Occurrences(text, kw) >= 1})
                    /\ count >= 0
                    /\ count <= Cardinality(keywords)

\* a keyword occurs twice in the text of an article and is counted once
C12_Witness ==
    /\ BeforePass
    /\ \E id \in DOMAIN heap :
         LET text == Surface(id)
         IN  /\ \E kw \in ranker.medium_priority : Occurrences(text, kw) >= 2
             /\ _count_keyword_matches(text, ranker.medium_priority) = 1

(***************************************************************************)
(* C13  As claimed: a single-word tier keyword is counted only when it     *)
(* occurs in the lower-cased text as a whole word, delimited by non-word   *)
(* characters or the ends of the text; a keyword with a space is counted   *)
(* exactly when it is a substring of the lower-cased text.                 *)
(***************************************************************************)
\* the keyword stands at offset n of the text as a whole word
WholeWordAt(text, keyword, n) ==
    /\ \A m \in 1..Len(keyword) : text[n + m] = keyword[m]
    /\ n = 0 \/ text[n] \notin WordChars
    /\ n + Len(keyword) = Len(text) \/ text[n + Len(keyword) + 1] \notin WordChars

HasSpace(keyword) == \E m \in 1..Len(keyword) : keyword[m] = " "

C13_WholeWordOrSubstring ==
    BeforePass =>
      \A id \in DOMAIN heap :
         LET text == Surface(id)
         IN  \A kw \in UNION Tiers :
                kw # <<>> =>
                  IF HasSpace(kw)
                  THEN (_count_keyword_matches(text, {kw}) = 1) <=> Contains(text, kw)
                  ELSE (_count_keyword_matches(text, {kw}) = 1)
                       => \E n \in 0..(Len(text) - Len(kw)) : WholeWordAt(text, kw, n)

(***************************************************************************)
(* C14  As claimed: a keyword that is empty after trimming is ignored: in  *)
(* a tier it never counts as a match, in the exclusion list it never       *)
(* excludes an article, for every article text.                            *)
(***************************************************************************)
C14_EmptyKeywordIgnored ==
    BeforePass =>
      \A id \in DOMAIN heap :
         LET text == _get_searchable_text(heap[id])
         IN  /\ \A keywords \in Tiers :
                  _count_keyword_matches(text, keywords)
                    = _count_keyword_matches(text, keywords \ {<<>>})
             /\ _check_exclusions(ranker, text)
                  = _check_exclusions([ranker EXCEPT !.exclusions = @ \ {<<>>}], text)

(***************************************************************************)
(* C15  After pass 1 the n candidates carry the pre_rank_position values   *)
(* 1..n in output order, n <= candidate_buffer, no other article has a     *)
(* pre_rank_position, pre_rank_score is the pass-1 score, and a candidate  *)
(* at a smaller position never has a smaller pre_rank_score.               *)
(***************************************************************************)
C15_PreRankPositions ==
    /\ pc \notin {"fetch", "prerank"} =>
         /\ Len(candidates) <= config.candidate_buffer
         /\ \A n \in 1..Len(candidates) :
              heap[candidates[n]]["pre_rank_position"] = n
         /\ \A id \in DOMAIN heap \ Elems(candidates) :
              "pre_rank_position" \notin DOMAIN heap[id]
         /\ \A m, n \in 1..Len(candidates) :
              m < n => heap[candidates[m]]["pre_rank_score"]
                         >= heap[candidates[n]]["pre_rank_score"]
    /\ AfterPass1 =>
         \A id \in Elems(candidates) :
            /\ heap[id]["pre_rank_score"] = heap[id]["relevance_score"]
            /\ heap[id]["pre_rank_score"] = score_article(ranker, heap[id])

\* pass 1 filled the candidate buffer with articles of different scores and
\* left an article out
C15_Witness ==
    /\ AfterPass1
    /\ Len(candidates) = config.candidate_buffer
    /\ Len(candidates) >= 2
    /\ heap[candidates[1]]["pre_rank_score"] > heap[candidates[2]]["pre_rank_score"]
    /\ Elems(articles) \ Elems(candidates) # {}

(***************************************************************************)
(* C16  Enrichment preserves order and cardinality: summarize_batch        *)
(* returns the candidates it was given, in the same order, each with       *)
(* ai_summary set, to the provider's text or, when the call failed, to the *)
(* article's raw summary; articles it was not given get no ai_summary.     *)
(***************************************************************************)
C16_EnrichmentPreservesItems ==
    /\ pc \in {"fetch", "prerank", "summarize"} =>
         \A id \in DOMAIN heap : "ai_summary" \notin DOMAIN heap[id]
    /\ pc = "finalrank" =>
         /\ summarized = candidates
         /\ \A id \in Elems(summarized) :
              /\ "ai_summary" \in DOMAIN heap[id]
              /\ \/ heap[id]["ai_summary"] \in AiSummaries
                 \/ heap[id]["ai_summary"] = heap[id]["summary"]
         /\ \A id \in DOMAIN heap \ Elems(summarized) :
              "ai_summary" \notin DOMAIN heap[id]

\* the call failed for the first candidate, which kept its raw summary, and
\* the second candidate was still given the provider's text
C16_Witness ==
    /\ pc = "finalrank"
    /\ Len(summarized) >= 2
    /\ heap[summarized[1]]["ai_summary"] = heap[summarized[1]]["summary"]
    /\ heap[summarized[1]]["ai_summary"] \notin AiSummaries
    /\ heap[summarized[2]]["ai_summary"] \in AiSummaries

(***************************************************************************)
(* C17  As claimed: when enrichment fell back to the raw summary of a      *)
(* candidate (ai_summary = summary), the candidate is not excluded in      *)
(* pass 2 and its score before the bonus equals its pre_rank_score.        *)
(***************************************************************************)
C17_FallbackNeutral ==
    pc = "finalrank" =>
      \A id \in Elems(summarized) :
         heap[id]["ai_summary"] = heap[id]["summary"] =>
            /\ ~HasExclusion(id)
            /\ score_article(ranker, heap[id]) = heap[id]["pre_rank_score"]

(***************************************************************************)
(* C18  An empty result is a normal end: when fetching yields no article,  *)
(* pass 1 no candidate or pass 2 no article, run_digest returns 0 and      *)
(* posts nothing; after an empty pass 1 the summarizer is never called;    *)
(* rank_articles on an empty list returns an empty list.                   *)
(***************************************************************************)
C18_EmptyResultIsNormal ==
    /\ (pc # "fetch" /\ heap = <<>>) => (pc = "done" /\ exit_code = 0)
    /\ (pc \notin {"fetch", "prerank"} /\ candidates = <<>>) =>
         /\ pc = "done" /\ exit_code = 0
         /\ summarized = <<>>
         /\ \A id \in DOMAIN heap : "ai_summary" \notin DOMAIN heap[id]
    /\ (pc \in {"post", "done"} /\ ranked = <<>>) =>
         (pc = "done" /\ exit_code = 0 /\ posted = <<>>)
    /\ pc = "finalrank" =>
         rank_articles(ranker, heap, <<>>, config.top_articles, config.min_score,
                       config.protected_count, config.prerank_bonus_max).result = <<>>

\* pass 2 returned no article for a non-empty list of candidates
C18_Witness ==
    /\ pc = "done"
    /\ summarized # <<>>
    /\ ranked = <<>>
    /\ exit_code = 0
    /\ posted = <<>>

(***************************************************************************)
(* C19  rank_articles never returns more than top_n articles: pass 1       *)
(* returns at most candidate_buffer candidates, pass 2 at most             *)
(* top_articles articles.                                                  *)
(***************************************************************************)
C19_AtMostTopN ==
    /\ Len(candidates) <= config.candidate_buffer
    /\ Len(summarized) <= config.candidate_buffer
    /\ Len(ranked) <= config.top_articles
    /\ Len(posted) <= config.top_articles

\* both passes cut an article that had qualified
C19_Witness ==
    /\ AfterPass2
    /\ Len(ranked) = config.top_articles
    /\ \E cut \in Elems(summarized) \ Elems(ranked) : Qualified2(cut)
    /\ Len(candidates) = config.candidate_buffer
    /\ \E cut \in Elems(articles) \ Elems(candidates) :
         heap[cut]["title"] = <<"K">>

(***************************************************************************)
(* C20  At every point of a run an article has protected = true only if    *)
(* pass 2 has run, its pre_rank_position is <= protected_count and its     *)
(* text has no exclusion keyword; no article is protected during pass 1.   *)
(***************************************************************************)
C20_ProtectedOnlyInRange ==
    \A id \in DOMAIN heap :
       "protected" \in DOMAIN heap[id] =>
          /\ heap[id]["protected"] = TRUE
          /\ pc \in {"post", "done", "raised"}
          /\ id \in Elems(summarized)
          /\ InProtectedRange(id)
          /\ ~HasExclusion(id)

\* pass 2 marked one candidate of the protection range and dropped another
\* one, whose enriched text has an exclusion keyword, without marking it
C20_Witness ==
    /\ AfterPass2
    /\ \E id \in Elems(summarized) : Get(heap[id], "protected", FALSE)
    /\ \E id \in Elems(summarized) :
         /\ InProtectedRange(id)
         /\ HasExclusion(id)
         /\ "protected" \notin DOMAIN heap[id]

(***************************************************************************)
(* C21  With dry_run set, run_digest sends no request to Discord on any    *)
(* path, and when the final ranking is not empty it prints the ranked      *)
(* articles in rank order and returns 0.                                   *)
(***************************************************************************)
C21_DryRunNeverPosts ==
    dry_run =>
      /\ posted = <<>>
      /\ pc # "raised"
      /\ (pc = "done" /\ ranked # <<>>) =>
            /\ exit_code = 0
            /\ Len(stdout) = Len(ranked)
            /\ \A n \in 1..Len(ranked) :
                 /\ stdout[n].title = heap[ranked[n]]["title"]
                 /\ stdout[n].relevance_score = heap[ranked[n]]["relevance_score"]
      /\ (pc # "done" \/ ranked = <<>>) => stdout = <<>>

\* a dry run has printed two ranked articles and returned 0
C21_Witness ==
    /\ dry_run
    /\ pc = "done"
    /\ Len(ranked) = 2
    /\ Len(stdout) = 2
    /\ exit_code = 0

(***************************************************************************)
(* C22  As claimed: on a run without dry_run whose final ranking is not    *)
(* empty, run_digest posts the digest after the final rank and returns 0   *)
(* (every request answered 204) or 1 (posting failed).                     *)
(***************************************************************************)
C22_PostsAndReturns ==
    (~dry_run /\ ranked # <<>>) =>
       /\ pc \in {"post", "done"}
       /\ pc = "done" =>
            /\ exit_code \in {0, 1}
            /\ exit_code = 0 => posted = ranked

(***************************************************************************)
(* C24  As claimed: a configuration with no tier keyword is rejected at    *)
(* startup, so no article is ever ranked by a ranker without a tier        *)
(* keyword.                                                                *)
(***************************************************************************)
C24_NoTiersRejected ==
    BeforePass => UNION Tiers # {}

(***************************************************************************)
(* C25  Pass 1 bounds the enrichment cost: the summarizer is given at most *)
(* candidate_buffer articles, all of them returned by pass 1, and the      *)
(* number of API attempts of a run is at most candidate_buffer x           *)
(* retry_max.                                                              *)
(***************************************************************************)
C25_EnrichmentBounded ==
    /\ Len(summarized) <= config.candidate_buffer
    /\ api_attempts <= config.candidate_buffer * RetryMax
    /\ api_attempts <= Len(summarized) * RetryMax
    /\ api_attempts >= Len(summarized)
    /\ summarized # <<>> =>
         /\ summarized = candidates
         /\ \A id \in Elems(summarized) :
              /\ id \in Elems(articles)
              /\ heap[id]["pre_rank_score"] > 0
              /\ heap[id]["pre_rank_position"] <= config.candidate_buffer

\* every candidate of a full buffer took retry_max attempts, and pass 1 had
\* kept an article with a positive score out of the buffer
C25_Witness ==
    /\ pc = "finalrank"
    /\ Len(summarized) = config.candidate_buffer
    /\ api_attempts = config.candidate_buffer * RetryMax
    /\ \E id \in Elems(articles) \ Elems(summarized) :
         score_article(ranker, heap[id]) > 0

(***************************************************************************)
(* C28  Exclusion matching is plain substring containment for every        *)
(* exclusion keyword: an article is excluded (score 0) exactly when some   *)
(* exclusion keyword occurs anywhere in its lower-cased text, inside a     *)
(* longer word included, while a tier keyword without a space that occurs  *)
(* only inside a longer word is not counted.                               *)
(***************************************************************************)
\* the keyword occurs in the text, but nowhere as a whole word
OnlyInsideWord(text, kw) ==
    /\ kw # <<>>
    /\ Contains(text, kw)
    /\ ~\E n \in 0..(Len(text) - Len(kw)) : WholeWordAt(text, kw, n)

C28_ExclusionIsSubstring ==
    BeforePass =>
      \A id \in DOMAIN heap :
         LET text == Surface(id)
         IN  /\ _check_exclusions(ranker, _get_searchable_text(heap[id]))
                  <=> \E kw \in ranker.exclusions : Contains(text, kw)
             /\ \A kw \in ranker.exclusions :
                  OnlyInsideWord(text, kw) => score_article(ranker, heap[id]) = 0
             /\ \A kw \in UNION Tiers :
                  (OnlyInsideWord(text, kw) /\ ~HasSpace(kw) /\ kw[1] \in WordChars
                   /\ kw[Len(kw)] \in WordChars)
                  => _count_keyword_matches(text, {kw}) = 0

\* an article is excluded by a keyword that occurs only inside a longer word,
\* and a tier keyword that occurs only inside a longer word is not counted
C28_Witness ==
    /\ BeforePass
    /\ \E id \in DOMAIN heap :
         LET text == Surface(id)
         IN  /\ \E kw \in ranker.exclusions : OnlyInsideWord(text, kw)
             /\ \A kw \in ranker.exclusions :
                  ~\E n \in 0..(Len(text) - Len(kw)) : WholeWordAt(text, kw, n)
             /\ score_article(ranker, heap[id]) = 0
             /\ \E kw \in UNION Tiers :
                  OnlyInsideWord(text, kw) /\ _count_keyword_matches(text, {kw}) = 0

(***************************************************************************)
(* C29  As claimed: enrichment only adds text, so a candidate that is not  *)
(* excluded in pass 2 scores, before the bonus, at least its               *)
(* pre_rank_score, and a pass-2 score of 0 occurs only for candidates      *)
(* whose enriched text has an exclusion keyword.                           *)
(***************************************************************************)
C29_EnrichmentNeverLowers ==
    pc = "finalrank" =>
      \A id \in Elems(summarized) :
         ~HasExclusion(id) =>
            /\ score_article(ranker, heap[id]) >= heap[id]["pre_rank_score"]
            /\ score_article(ranker, heap[id]) # 0

(***************************************************************************)
(* C29 amended: pass 1 joins the fields with an empty ai_summary, which    *)
(* leaves two spaces between summary and source; enrichment fills that     *)
(* place.  Every tier keyword without two consecutive spaces that matched  *)
(* in pass 1 still matches in pass 2; when no tier keyword has two         *)
(* consecutive spaces, a candidate not excluded in pass 2 scores, before   *)
(* the bonus, at least its pre_rank_score, and never 0.                    *)
(***************************************************************************)
HasDoubleSpace(kw) == \E n \in 1..(Len(kw) - 1) : kw[n] = " " /\ kw[n + 1] = " "

\* the text surface article id had in pass 1, before enrichment
Pass1Surface(id) ==
    Lower(Get(heap[id], "title", <<>>) \o <<" ">> \o Get(heap[id], "summary", <<>>)
          \o <<" ", " ">> \o Get(heap[id], "source", <<>>))

C29_NeverLowersWithoutDoubleSpace ==
    pc = "finalrank" =>
      \A id \in Elems(summarized) :
         ~HasExclusion(id) =>
            /\ \A kw \in UNION Tiers :
                 (~HasDoubleSpace(kw)
                  /\ _count_keyword_matches(Pass1Surface(id), {kw}) = 1)
                 => _count_keyword_matches(_get_searchable_text(heap[id]), {kw}) = 1
            /\ (\A kw \in UNION Tiers : ~HasDoubleSpace(kw)) =>
                 /\ score_article(ranker, heap[id]) >= heap[id]["pre_rank_score"]
                 /\ score_article(ranker, heap[id]) # 0

\* enrichment raised the score of one candidate and left the score of another
\* one, whose keywords all matched in pass 1 already, as it was
C29_Witness ==
    /\ pc = "finalrank"
    /\ \A kw \in UNION Tiers : ~HasDoubleSpace(kw)
    /\ \E id \in Elems(summarized) :
         ~HasExclusion(id)
         /\ score_article(ranker, heap[id]) > heap[id]["pre_rank_score"]
    /\ \E id \in Elems(summarized) :
         ~HasExclusion(id)
         /\ score_article(ranker, heap[id]) = heap[id]["pre_rank_score"]

(***************************************************************************)
(* C30  rank_articles returns a sub-list of its input: every returned      *)
(* article is one of the input, none is returned twice, none is created,   *)
(* and the only fields written on any article are relevance_score and      *)
(* protected; title, link, summary, ai_summary, source and                 *)
(* pre_rank_position stay as they were.                                    *)
(***************************************************************************)
\* the list the pass that is about to start ranks
PassInput == IF pc = "prerank" THEN articles ELSE summarized

\* the call of rank_articles of the pass that is about to start
PassCall ==
    IF pc = "prerank"
    THEN rank_articles(ranker, heap, articles, config.candidate_buffer, 0, 0, 0)
    ELSE rank_articles(ranker, heap, summarized, config.top_articles, config.min_score,
                       config.protected_count, config.prerank_bonus_max)

RankWrites == {"relevance_score", "protected"}

C30_RankArticlesFrame ==
    BeforePass =>
      \E r \in {PassCall} :
         /\ Elems(r.result) \subseteq Elems(PassInput)
         /\ \A m, n \in 1..Len(r.result) : m # n => r.result[m] # r.result[n]
         /\ DOMAIN r.heap = DOMAIN heap
         /\ \A id \in DOMAIN heap :
              /\ DOMAIN heap[id] \subseteq DOMAIN r.heap[id]
              /\ DOMAIN r.heap[id] \ DOMAIN heap[id] \subseteq RankWrites
              /\ \A k \in DOMAIN heap[id] \ RankWrites : r.heap[id][k] = heap[id][k]
              /\ id \notin Elems(PassInput) => r.heap[id] = heap[id]

\* pass 2 is about to return some of its input, not all, and to mark an
\* article protected
C30_Witness ==
    /\ pc = "finalrank"
    /\ \E r \in {PassCall} :
         /\ r.result # <<>>
         /\ Len(r.result) < Len(summarized)
         /\ \E id \in Elems(r.result) : "protected" \in DOMAIN r.heap[id]
         /\ \E id \in Elems(r.result) : r.heap[id]["relevance_score"]
                                           # heap[id]["relevance_score"]

\* the article dict with each absent text field set to the empty string
Filled(article) ==
    [key \in DOMAIN article \cup {"title", "summary", "ai_summary", "source"} |->
        IF key \in DOMAIN article THEN article[key] ELSE <<>>]

\* C23: score_article returns a score for an article that lacks any of
\* title, summary, ai_summary and source, and the score is the one of the
\* article with the absent fields set to the empty string: 0 when the text
\* of the remaining fields holds an exclusion keyword, else the capped sum of
\* the tiers over that text
C23_MissingFieldIsEmpty ==
    (call.fn = "score_article" /\ pc = "returned") =>
        /\ returned.score = score_article(ranker, Filled(heap[1]))
        /\ returned.score = IF HasExclusion(1) THEN 0 ELSE Min(MaxScore, TierSum(1))

\* an article with a summary only has been scored 5 on its summary
C23_Witness ==
    /\ call.fn = "score_article"
    /\ pc = "returned"
    /\ DOMAIN heap[1] = {"summary", "link"}
    /\ returned.score = 5

\* the number of calls of fn in the trace of a call of summarize
Calls(fn) ==
    Cardinality({n \in 1..Len(returned.trace) : returned.trace[n] = fn})

\* C26: a call of summarize makes between 1 and retry_max API attempts;
\* every attempt but the last raised an error whose message holds "429" or
\* "quota"; a text is returned as it came; an error of the last attempt
\* made is the error summarize raises, and if it is a rate-limit error the
\* attempt was the retry_max-th; _rate_limit is called right before every
\* attempt and at no other time
C26_SummarizeRetries ==
    (call.fn = "summarize" /\ pc = "returned") =>
        LET made == Calls("_call_api")
        IN  /\ made \in 1..RetryMax
            /\ \A n \in 1..(made - 1) :
                   /\ call.responses[n].kind = "error"
                   /\ call.responses[n].message \in RateLimitMessages
            /\ call.responses[made].kind = "text" =>
                   returned.ok /\ returned.text = call.responses[made].text
            /\ call.responses[made].kind = "error" =>
                   /\ ~returned.ok
                   /\ returned.error = call.responses[made].message
                   /\ returned.error \in RateLimitMessages => made = RetryMax
            /\ Calls("_rate_limit") = made
            /\ \A n \in 1..Len(returned.trace) :
                   returned.trace[n] = "_call_api" =>
                       n > 1 /\ returned.trace[n - 1] = "_rate_limit"

\* three rate-limit errors in a row: summarize has raised the third after
\* retry_max attempts
C26_Witness ==
    /\ call.fn = "summarize"
    /\ pc = "returned"
    /\ \A n \in 1..RetryMax : call.responses[n].message \in RateLimitMessages
    /\ call.responses[1].message # call.responses[RetryMax].message
    /\ Calls("_call_api") = RetryMax
    /\ ~returned.ok
    /\ returned.error = call.responses[RetryMax].message

\* the n-th request of post_digest was answered with status 204
Answered204(n) ==
    ~call.answers[n].raises /\ call.answers[n].status_code = 204

\* post_digest takes the split path
SplitPath ==
    /\ \A n \in 1..Len(heap) :
           {"title", "source", "ai_summary", "link"} \subseteq DOMAIN heap[n]
    /\ _format_digest(heap, ranked, call.title, call.timestamp).length > 2000

\* the articles of the batch messages of a sequence of requests, in order
RECURSIVE Listed(_)
Listed(requests) ==
    IF requests = <<>> THEN <<>>
    ELSE IF Head(requests).kind = "batch"
    THEN Head(requests).articles \o Listed(Tail(requests))
    ELSE Listed(Tail(requests))

\* C27: post_digest returns True only if every request it sent was answered
\* 204; every request before the last one sent was answered 204, and a
\* request that was not makes the result False; on the split path the first
\* request is the header, the others are batches of 1 to 3 articles that
\* list the ranked articles in order, numbered by rank, all of them when
\* the result is True
C27_PostDigest ==
    (call.fn = "post_digest" /\ pc = "returned") =>
        /\ returned.result => \A n \in 1..Len(posted) : Answered204(n)
        /\ \A n \in 1..(Len(posted) - 1) : Answered204(n)
        /\ (\E n \in 1..Len(posted) : ~Answered204(n)) => ~returned.result
        /\ SplitPath =>
               /\ Len(posted) >= 1
               /\ posted[1].kind = "header"
               /\ \A n \in 2..Len(posted) :
                      /\ posted[n].kind = "batch"
                      /\ Len(posted[n].articles) \in 1..3
                      /\ posted[n].first
                            = Len(Listed(SubSeq(posted, 1, n - 1))) + 1
               /\ Listed(posted) = SubSeq(ranked, 1, Len(Listed(posted)))
               /\ returned.result => Listed(posted) = ranked

\* four articles on the split path, the header answered 204 and the first
\* batch not: post_digest has returned False without sending the second batch
C27_Witness ==
    /\ call.fn = "post_digest"
    /\ pc = "returned"
    /\ SplitPath
    /\ Len(ranked) = 4
    /\ Answered204(1)
    /\ ~Answered204(2)
    /\ Len(posted) = 2
    /\ Len(posted[2].articles) = 3
    /\ ~returned.result

====
